---- MODULE Spec2Model ----
(***************************************************************************)
(* State-machine model of the Fadu card game client (src/src/App.js):      *)
(* the React component's state, its event handlers, the local round and    *)
(* scoring functions, and the WebSocket callbacks.                         *)
(*                                                                         *)
(* JavaScript arrays are 0-based; sequences here are 1-based, so           *)
(* players[currentPlayer] of the source is players[currentPlayer + 1].     *)
(***************************************************************************)
EXTENDS Integers, Sequences, FiniteSets, TLC

VARIABLES
    gameStarted,    \* useState(false)
    numPlayers,     \* useState(2)
    numRounds,      \* useState(5)
    currentRound,   \* useState(1)
    players,        \* useState([]): sequence of [id, name, hand, score]
    currentPlayer,  \* useState(0): 0-based index of the turn holder
    deck,           \* useState([])
    tableCard,      \* useState(null)
    selectedCard,   \* useState(null): 0-based index or null
    showWinner,     \* useState(false)
    gameWinners,    \* useState([])
    hasDrawn,       \* useState(false)
    socket,         \* useState(null): "null" or the readyState of the WebSocket
    mounted,        \* whether the component is mounted (effect cleanup not run)
    outbox          \* messages handed to socket.send and not yet received by the server

vars == <<gameStarted, numPlayers, numRounds, currentRound, players, currentPlayer,
          deck, tableCard, selectedCard, showWinner, gameWinners, hasDrawn,
          socket, mounted, outbox>>

game == <<gameStarted, numPlayers, numRounds, currentRound, players, currentPlayer,
          deck, tableCard, selectedCard, showWinner, gameWinners, hasDrawn>>

-----------------------------------------------------------------------------
(* Bounds of the model *)

\* number of distinct outcomes of the random sort that initializeDeck may produce
NumShuffles == 2
\* longest hand a private_update message carries
MaxMsgHand == 6
\* startNewRound is not invoked once currentRound has reached this value
MaxRound == 2

-----------------------------------------------------------------------------
(* JavaScript values *)

\* null as the value of selectedCard
null == -1
\* the result of parseInt on a text without leading digits
NaN == -999

\* null as the value of tableCard; the result of pop() on an empty array
NullCard == [suit |-> "null", value |-> 0]
Undefined == [suit |-> "undefined", value |-> 0]

\* JavaScript truthiness of a tableCard value
Truthy(c) == c # NullCard /\ c # Undefined

\* a >= b on numbers: false when either side is NaN
GreaterEq(a, b) == a # NaN /\ b # NaN /\ a >= b

\* ToLength of Array.from({ length: n }): NaN and negatives give 0
ToLength(n) == IF n = NaN \/ n < 0 THEN 0 ELSE n

Digits == <<"0", "1", "2", "3", "4", "5", "6", "7", "8", "9">>
IsDigit(ch) == \E d \in 1..10 : Digits[d] = ch
DigitValue(ch) == (CHOOSE d \in 1..10 : Digits[d] = ch) - 1

\* the value of the longest prefix of digits of text, continuing from acc
RECURSIVE ParseDigits(_, _)
ParseDigits(text, acc) ==
    IF text = <<>> \/ ~IsDigit(Head(text)) THEN acc
    ELSE ParseDigits(Tail(text), acc * 10 + DigitValue(Head(text)))

\* parseInt(text): optional sign, then the leading digits; NaN when there are none
parseInt(text) ==
    LET neg == text # <<>> /\ Head(text) = "-"
        body == IF text # <<>> /\ Head(text) \in {"-", "+"} THEN Tail(text) ELSE text
    IN IF body = <<>> \/ ~IsDigit(Head(body)) THEN NaN
       ELSE IF neg THEN 0 - ParseDigits(body, 0) ELSE ParseDigits(body, 0)

\* texts typed in the two number inputs of the setup form
PlayerTexts == {<<>>, <<"2">>, <<"1", "1">>}
RoundTexts == {<<"0">>, <<"1">>, <<"1", ".", "5">>}

-----------------------------------------------------------------------------
(* Cards and the deck *)

suits == <<"Hearts", "Diamonds", "Clubs", "Spades">>
NumValues == 13
DeckSize == Len(suits) * NumValues
HandSize == 5
\* min and max of the Number of Players input
MinPlayers == 2
MaxPlayers == 8
WinBonus == 4

userId == <<"player", 1>>
PlayerId(i) == IF i = 0 THEN userId ELSE <<"player", i + 1>>
PlayerName(i) == <<"Player", i + 1>>

\* the nested loops of initializeDeck: suits in order, values 1..13 within a suit
OrderedDeck ==
    [n \in 1..DeckSize |->
        [suit |-> suits[((n - 1) \div NumValues) + 1], value |-> ((n - 1) % NumValues) + 1]]

Stride_Even(k) == 2 * (k + 1)

\* the k-th outcome of newDeck.sort(() => Math.random() - 0.5): a reordering of d
Stride(k) == IF (2 * k + 1) % NumValues = 0 THEN 1 ELSE 2 * k + 1
Shuffled(d, k) == [n \in 1..Len(d) |-> d[(((n - 1) * Stride(k) + k) % Len(d)) + 1]]

initializeDeck(k) == Shuffled(OrderedDeck, k)

\* Array.prototype.pop: the last element (undefined on an empty array) and the rest
PopCard(d) == IF d = <<>> THEN Undefined ELSE d[Len(d)]
PopRest(d) == IF d = <<>> THEN <<>> ELSE SubSeq(d, 1, Len(d) - 1)

\* the dealing loops: one card to each of players j..Len(ps) in roster order
RECURSIVE DealRound(_, _, _)
DealRound(ps, d, j) ==
    IF j > Len(ps) THEN [players |-> ps, deck |-> d]
    ELSE DealRound([ps EXCEPT ![j].hand = Append(@, PopCard(d))], PopRest(d), j + 1)

\* for (let i = 0; i < 5; i++) for (let player of newPlayers) player.hand.push(newDeck.pop())
RECURSIVE Deal(_, _, _)
Deal(ps, d, i) ==
    IF i >= HandSize THEN [players |-> ps, deck |-> d]
    ELSE LET r == DealRound(ps, d, 1) IN Deal(r.players, r.deck, i + 1)

\* Array.from({ length: numPlayers }, (_, i) => ({ id, name, hand: [], score: 0 }))
NewPlayers(n) ==
    [i \in 1..ToLength(n) |->
        [id |-> PlayerId(i - 1), name |-> PlayerName(i - 1), hand |-> <<>>, score |-> 0]]

\* players.map(player => ({ ...player, hand: [] }))
ClearHands(ps) == [i \in 1..Len(ps) |-> [ps[i] EXCEPT !.hand = <<>>]]

-----------------------------------------------------------------------------
(* Scoring *)

\* Math.max(...players.map(p => p.score)); -Infinity on an empty roster
MinusInfinity == -1000000
RECURSIVE MaxScoreFrom(_, _, _)
MaxScoreFrom(ps, i, acc) ==
    IF i > Len(ps) THEN acc
    ELSE MaxScoreFrom(ps, i + 1, IF ps[i].score > acc THEN ps[i].score ELSE acc)
MaxScore(ps) == MaxScoreFrom(ps, 1, MinusInfinity)

IsTopScore(ps, p) == p.score = MaxScore(ps)

Winners_FirstOnly(ps) ==
    LET top == SelectSeq(ps, LAMBDA p : IsTopScore(ps, p))
    IN IF top = <<>> THEN <<>> ELSE <<Head(top)>>

\* players.filter(p => p.score === maxScore)
Winners(ps) == SelectSeq(ps, LAMBDA p : IsTopScore(ps, p))

\* newPlayers[currentPlayer].score += 4, on the player objects the state holds
AwardBonus(ps, i) == [ps EXCEPT ![i + 1].score = @ + WinBonus]

-----------------------------------------------------------------------------
(* The view: what the rendered buttons allow *)

HasTurnHolder == currentPlayer + 1 \in 1..Len(players)

\* players[currentPlayer]?.hand
CurrentHand == IF HasTurnHolder THEN players[currentPlayer + 1].hand ELSE <<>>

\* players[currentPlayer]?.hand.some(card => card.value === tableCard.value)
HandMatchesTable ==
    HasTurnHolder /\ \E n \in 1..Len(CurrentHand) : CurrentHand[n].value = tableCard.value

DrawDisabled_IgnoresHasDrawn == Truthy(tableCard) /\ HandMatchesTable

DrawDisabled_IgnoresMatch == hasDrawn

\* disabled={hasDrawn || (tableCard && players[currentPlayer]?.hand.some(...))}
DrawDisabled == hasDrawn \/ (Truthy(tableCard) /\ HandMatchesTable)

\* disabled={selectedCard === null}
PlayDisabled == selectedCard = null

SocketOpen_AnyState == socket # "null"

\* socket && socket.readyState === WebSocket.OPEN
SocketOpen == socket # "null" /\ socket = "OPEN"

RoundsExhausted_OffByOne == numRounds # NaN /\ currentRound > numRounds

\* if (currentRound >= numRounds) in startNewRound
RoundsExhausted == GreaterEq(currentRound, numRounds)

DrawMsg == [action |-> "draw_card"]
PlayMsg(index) == [action |-> "play_card", cardIndex |-> index]
CallMsg == [action |-> "call"]

\* socket.send(JSON.stringify(msg)). The server takes each message before the client
\* sends the next one: a send waits until nothing is in flight.
Send(msg) == /\ outbox = <<>>
             /\ outbox' = Append(outbox, msg)

-----------------------------------------------------------------------------
(* Messages the server may deliver *)

MsgHands == {[n \in 1..len |-> OrderedDeck[n]] : len \in (MaxMsgHand - 1)..MaxMsgHand}
MsgTableCards == {OrderedDeck[1]}

Messages ==
    {[type |-> "welcome"], [type |-> "broadcast"]}
    \cup {[type |-> "private_update", hand |-> h] : h \in MsgHands}
    \cup {[type |-> "public_update", tableCard |-> c] : c \in MsgTableCards \cup {NullCard}}

-----------------------------------------------------------------------------
(* Initial state: the component is mounted and the effect has created the socket *)

Init ==
    /\ gameStarted = FALSE
    /\ numPlayers = 2
    /\ numRounds = 5
    /\ currentRound = 1
    /\ players = <<>>
    /\ currentPlayer = 0
    /\ deck = <<>>
    /\ tableCard = NullCard
    /\ selectedCard = null
    /\ showWinner = FALSE
    /\ gameWinners = <<>>
    /\ hasDrawn = FALSE
    /\ socket = "CONNECTING"
    /\ mounted = TRUE
    /\ outbox = <<>>

-----------------------------------------------------------------------------
(* The setup form *)

SetNumPlayers(text) ==
    /\ mounted /\ ~gameStarted
    /\ numPlayers' = parseInt(text)
    /\ UNCHANGED <<gameStarted, numRounds, currentRound, players, currentPlayer, deck,
                   tableCard, selectedCard, showWinner, gameWinners, hasDrawn,
                   socket, mounted, outbox>>

SetNumRounds(text) ==
    /\ mounted /\ ~gameStarted
    /\ numRounds' = parseInt(text)
    /\ UNCHANGED <<gameStarted, numPlayers, currentRound, players, currentPlayer, deck,
                   tableCard, selectedCard, showWinner, gameWinners, hasDrawn,
                   socket, mounted, outbox>>

handleStartGame(k) ==
    /\ mounted /\ ~gameStarted
    /\ LET dealt == Deal(NewPlayers(numPlayers), initializeDeck(k), 0)
       IN /\ deck' = PopRest(dealt.deck)
          /\ players' = dealt.players
          /\ tableCard' = PopCard(dealt.deck)
    /\ currentRound' = 1
    /\ gameStarted' = TRUE
    /\ currentPlayer' = 0
    /\ hasDrawn' = FALSE
    /\ UNCHANGED <<numPlayers, numRounds, selectedCard, showWinner, gameWinners,
                   socket, mounted, outbox>>

resetGame ==
    /\ mounted /\ gameStarted /\ showWinner
    /\ gameStarted' = FALSE
    /\ showWinner' = FALSE
    /\ gameWinners' = <<>>
    /\ players' = <<>>
    /\ deck' = <<>>
    /\ tableCard' = NullCard
    /\ selectedCard' = null
    /\ currentPlayer' = 0
    /\ currentRound' = 1
    /\ hasDrawn' = FALSE
    /\ UNCHANGED <<numPlayers, numRounds, socket, mounted, outbox>>

-----------------------------------------------------------------------------
(* The game screen *)

\* onClick={() => setSelectedCard(index)} on a card of the turn holder's hand
SelectCard(index) ==
    /\ mounted /\ gameStarted
    /\ index \in 0..(Len(CurrentHand) - 1)
    /\ selectedCard' = index
    /\ UNCHANGED <<gameStarted, numPlayers, numRounds, currentRound, players,
                   currentPlayer, deck, tableCard, showWinner, gameWinners, hasDrawn,
                   socket, mounted, outbox>>

\* the Draw Card button
drawCard ==
    /\ mounted /\ gameStarted /\ ~DrawDisabled
    /\ IF SocketOpen
       THEN /\ Send(DrawMsg)
            /\ hasDrawn' = TRUE
       ELSE UNCHANGED <<outbox, hasDrawn>>
    /\ UNCHANGED <<gameStarted, numPlayers, numRounds, currentRound, players,
                   currentPlayer, deck, tableCard, selectedCard, showWinner,
                   gameWinners, socket, mounted>>

\* the Play Card button
playCard ==
    /\ mounted /\ gameStarted /\ ~PlayDisabled
    /\ IF SocketOpen THEN Send(PlayMsg(selectedCard)) ELSE UNCHANGED outbox
    /\ UNCHANGED <<game, socket, mounted>>

\* the Call button
handleCall ==
    /\ mounted /\ gameStarted
    /\ IF SocketOpen THEN Send(CallMsg) ELSE UNCHANGED outbox
    /\ UNCHANGED <<game, socket, mounted>>

-----------------------------------------------------------------------------
(* Rounds and scoring *)
(* handlePlayerWin and startNewRound are the component's local functions   *)
(* for rounds and scoring. No button or callback of the component calls    *)
(* them; they are modelled as operations that may be invoked whenever the  *)
(* game screen is shown.                                                   *)

\* endGame(), reading the player objects ps
endGame(ps) ==
    /\ gameWinners' = Winners(ps)
    /\ showWinner' = TRUE

\* the body of startNewRound. ps are the player objects its closure reads; k picks
\* the outcome of the shuffle
StartNewRoundBody(ps, k) ==
    /\ currentRound' = currentRound + 1
    /\ IF RoundsExhausted
       THEN /\ endGame(ps)
            /\ players' = ps
            /\ UNCHANGED <<deck, tableCard, currentPlayer, hasDrawn>>
       ELSE /\ LET dealt == Deal(ClearHands(ps), initializeDeck(k), 0)
               IN /\ deck' = PopRest(dealt.deck)
                  /\ players' = dealt.players
                  /\ tableCard' = PopCard(dealt.deck)
            /\ currentPlayer' = 0
            /\ hasDrawn' = FALSE
            /\ UNCHANGED <<showWinner, gameWinners>>
    /\ UNCHANGED <<gameStarted, numPlayers, numRounds, selectedCard,
                   socket, mounted, outbox>>

startNewRound(k) ==
    /\ mounted /\ gameStarted
    /\ currentRound < MaxRound
    /\ StartNewRoundBody(players, k)

\* handlePlayerWin: the bonus is added to the turn holder's object in place, so the
\* startNewRound it calls reads the raised score. With no turn holder the first
\* statement throws and nothing is set.
handlePlayerWin(k) ==
    /\ mounted /\ gameStarted /\ HasTurnHolder
    /\ currentRound < MaxRound
    /\ StartNewRoundBody(AwardBonus(players, currentPlayer), k)

-----------------------------------------------------------------------------
(* WebSocket callbacks *)

ReplaceHand_DropsScore(ps, hand) ==
    [i \in 1..Len(ps) |->
        IF ps[i].id = userId THEN [ps[i] EXCEPT !.hand = hand, !.score = 0] ELSE ps[i]]

ReplaceHand_AllPlayers(ps, hand) ==
    [i \in 1..Len(ps) |-> [ps[i] EXCEPT !.hand = hand]]

\* prevPlayers.map(player => player.id === userId ? { ...player, hand } : player)
ReplaceHand(ps, hand) ==
    [i \in 1..Len(ps) |-> IF ps[i].id = userId THEN [ps[i] EXCEPT !.hand = hand] ELSE ps[i]]

onmessage_PublicClearsHasDrawn(data) ==
    /\ mounted /\ socket = "OPEN"
    /\ IF data.type = "private_update"
       THEN /\ players' = ReplaceHand(players, data.hand)
            /\ UNCHANGED <<tableCard, hasDrawn>>
       ELSE IF data.type = "public_update" /\ Truthy(data.tableCard)
       THEN /\ tableCard' = data.tableCard
            /\ hasDrawn' = FALSE
            /\ UNCHANGED players
       ELSE UNCHANGED <<players, tableCard, hasDrawn>>
    /\ UNCHANGED <<gameStarted, numPlayers, numRounds, currentRound, currentPlayer,
                   deck, selectedCard, showWinner, gameWinners,
                   socket, mounted, outbox>>

\* ws.onmessage
onmessage(data) ==
    /\ mounted /\ socket = "OPEN"
    /\ IF data.type = "private_update"
       THEN /\ players' = ReplaceHand(players, data.hand)
            /\ UNCHANGED tableCard
       ELSE IF data.type = "public_update" /\ Truthy(data.tableCard)
       THEN /\ tableCard' = data.tableCard
            /\ UNCHANGED players
       ELSE UNCHANGED <<players, tableCard>>
    /\ UNCHANGED <<gameStarted, numPlayers, numRounds, currentRound, currentPlayer,
                   deck, selectedCard, showWinner, gameWinners, hasDrawn,
                   socket, mounted, outbox>>

\* ws.onopen
onopen ==
    /\ socket = "CONNECTING"
    /\ socket' = "OPEN"
    /\ UNCHANGED <<game, mounted, outbox>>

\* ws.onclose: the connection fails, or the server or the cleanup's close() ends it
onclose ==
    /\ socket \in {"CONNECTING", "OPEN", "CLOSING"}
    /\ socket' = "CLOSED"
    /\ UNCHANGED <<game, mounted, outbox>>

\* the effect's cleanup on unmount: ws.close(). The component's state goes with the
\* component: the state variables return to their useState initial values.
Unmount ==
    /\ mounted
    /\ mounted' = FALSE
    /\ socket' = IF socket = "CLOSED" THEN "CLOSED" ELSE "CLOSING"
    /\ gameStarted' = FALSE
    /\ numPlayers' = 2
    /\ numRounds' = 5
    /\ currentRound' = 1
    /\ players' = <<>>
    /\ currentPlayer' = 0
    /\ deck' = <<>>
    /\ tableCard' = NullCard
    /\ selectedCard' = null
    /\ showWinner' = FALSE
    /\ gameWinners' = <<>>
    /\ hasDrawn' = FALSE
    /\ UNCHANGED outbox

\* the server takes the oldest message in flight
ServerReceive ==
    /\ outbox # <<>>
    /\ outbox' = Tail(outbox)
    /\ UNCHANGED <<game, socket, mounted>>

-----------------------------------------------------------------------------

\* the cards of the shown hand the user clicks: the first one or the last one
ClickedCards == {0, Len(CurrentHand) - 1}

Next ==
    \/ \E text \in PlayerTexts : SetNumPlayers(text)
    \/ \E text \in RoundTexts : SetNumRounds(text)
    \/ \E k \in 0..(NumShuffles - 1) : handleStartGame(k)
    \/ resetGame
    \/ \E index \in ClickedCards : SelectCard(index)
    \/ drawCard
    \/ playCard
    \/ handleCall
    \/ \E k \in 0..(NumShuffles - 1) : startNewRound(k)
    \/ \E k \in 0..(NumShuffles - 1) : handlePlayerWin(k)
    \/ \E data \in Messages : onmessage(data)
    \/ onopen
    \/ onclose
    \/ Unmount
    \/ ServerReceive

Spec == Init /\ [][Next]_vars

-----------------------------------------------------------------------------
(* Vocabulary of the properties *)

IsCard(c) == \E n \in 1..DeckSize : OrderedDeck[n] = c

RECURSIVE SumHandsFrom(_, _)
SumHandsFrom(ps, i) ==
    IF i > Len(ps) THEN 0 ELSE Len(ps[i].hand) + SumHandsFrom(ps, i + 1)
\* the sum of all players' hand lengths
SumHands(ps) == SumHandsFrom(ps, 1)

\* the cards held in hands, in the deck and on the table
CardsInHands(ps) == UNION {{ps[i].hand[n] : n \in 1..Len(ps[i].hand)} : i \in 1..Len(ps)}
CardsInDeck(d) == {d[n] : n \in 1..Len(d)}

\* steps that hand a message to socket.send
Issued == Len(outbox') = Len(outbox) + 1
LastIssued == outbox'[Len(outbox')]
DrawIssued == Issued /\ LastIssued = DrawMsg
PlayIssued == Issued /\ LastIssued.action = "play_card"

\* a roster the setup form's min and max allow
ValidRoster == numPlayers \in MinPlayers..MaxPlayers

-----------------------------------------------------------------------------
(* C1 *)

\* C1: from a start with a valid roster until the game ends or is reset,
\* deck.length + the sum of the hand lengths + 1 (the table card) is 52.
C1_CardCount ==
    (gameStarted /\ ~showWinner /\ ValidRoster)
        => Len(deck) + SumHands(players) + 1 = DeckSize

-----------------------------------------------------------------------------
(* C2 *)

\* C2: every play_card issued with a valid card index by the turn holder of a roster
\* of N >= 2 players moves currentPlayer to the next index modulo N.
C2_TurnAdvances ==
    [][(PlayIssued /\ Len(players) >= MinPlayers
            /\ selectedCard \in 0..(Len(CurrentHand) - 1))
        => currentPlayer' = (currentPlayer + 1) % Len(players)]_vars

-----------------------------------------------------------------------------
(* C3 *)

\* C3: a draw_card is issued only while hasDrawn is false, and issuing it sets
\* hasDrawn: while hasDrawn stays true no second draw_card is issued.
C3_DrawOncePerTurn == [][DrawIssued => (~hasDrawn /\ hasDrawn')]_vars

\* in a game with a valid roster the turn holder has drawn: the draw_card is in flight
C3_Witness == gameStarted /\ ValidRoster /\ HasTurnHolder /\ hasDrawn /\ outbox = <<DrawMsg>>

-----------------------------------------------------------------------------
(* C4 *)

\* C4: a step that issues play_card leaves hasDrawn false for the next turn.
C4_PlayResetsHasDrawn == [][PlayIssued => ~hasDrawn']_vars

-----------------------------------------------------------------------------
(* C5 *)

\* steps of startNewRound: the only ones that add 1 to the round counter
RoundStep == currentRound' = currentRound + 1
GameEnds == ~showWinner /\ showWinner'
HandsOf(ps) == [i \in 1..Len(ps) |-> ps[i].hand]

\* C5: the game ends (showWinner becomes true) exactly in the startNewRound step taken
\* when the configured rounds are used up: with numRounds = R >= 1 that is the step
\* taken in round R, not an earlier round step and not a later one, and that step
\* deals no hands (hands, deck and table card stay as they are).
C5_EndsAtLastRound ==
    [][/\ GameEnds => /\ RoundStep
                      /\ GreaterEq(currentRound, numRounds)
                      /\ (numRounds >= 1 => currentRound = numRounds)
                      /\ HandsOf(players') = HandsOf(players)
                      /\ deck' = deck
                      /\ tableCard' = tableCard
       /\ (RoundStep /\ GreaterEq(currentRound, numRounds)) => showWinner'
       /\ (RoundStep /\ ~GreaterEq(currentRound, numRounds)) => showWinner' = showWinner
      ]_vars

\* a game of R >= 1 rounds has ended with the round step of round R
C5_Witness ==
    showWinner /\ ValidRoster /\ numRounds >= 1 /\ currentRound = numRounds + 1

-----------------------------------------------------------------------------
(* C6 *)

\* the players no other player outscores
TopScorers == {i \in 1..Len(players) :
                  \A j \in 1..Len(players) : players[j].score <= players[i].score}

\* C6: once the game has ended, gameWinners lists exactly the players whose score is
\* the maximum of the current scores, each once, with that score.
C6_WinnersAreTopScorers ==
    showWinner =>
        /\ {<<gameWinners[n].id, gameWinners[n].score>> : n \in 1..Len(gameWinners)}
              = {<<players[i].id, players[i].score>> : i \in TopScorers}
        /\ Len(gameWinners) = Cardinality(TopScorers)

\* a game of R >= 1 rounds ended by a handlePlayerWin in every round: the bonus of the
\* last round was awarded in the step that ended the game
C6_Witness ==
    /\ showWinner /\ numRounds >= 1 /\ currentRound = numRounds + 1
    /\ Len(players) >= MinPlayers
    /\ Len(gameWinners) = 1
    /\ gameWinners[1].score = WinBonus * numRounds

-----------------------------------------------------------------------------
(* C7 *)

\* what a start is claimed to leave: 5 cards for every player, 52 - 5N - 1 cards in
\* the deck, one table card, all of them distinct cards, scores 0, round 1, turn
\* holder 0, nothing drawn
FreshlyDealt ==
    /\ \A i \in 1..Len(players) :
          /\ Len(players[i].hand) = HandSize
          /\ \A n \in 1..Len(players[i].hand) : IsCard(players[i].hand[n])
    /\ Len(deck) = DeckSize - HandSize * Len(players) - 1
    /\ IsCard(tableCard)
    /\ Cardinality(CardsInHands(players) \cup CardsInDeck(deck) \cup {tableCard}) = DeckSize

C7_AfterStart ==
    /\ FreshlyDealt
    /\ \A i \in 1..Len(players) : players[i].score = 0
    /\ currentRound = 1
    /\ currentPlayer = 0
    /\ ~hasDrawn

\* C7: every start of a game leaves the state described by C7_AfterStart.
C7_StartDeals == [][(~gameStarted /\ gameStarted') => C7_AfterStart']_vars

-----------------------------------------------------------------------------
(* C8 *)

\* C8: a startNewRound step that does not end the game deals afresh from a full deck
\* (5 cards each, one table card, the rest in the deck), resets hasDrawn and the turn
\* holder, adds exactly 1 to the round counter and changes no score (but for the
\* bonus handlePlayerWin adds before it calls startNewRound).
C8_NewRoundDeals ==
    [][(RoundStep /\ ~GreaterEq(currentRound, numRounds))
        => /\ FreshlyDealt'
           /\ ~hasDrawn'
           /\ currentPlayer' = 0
           /\ Len(players') = Len(players)
           /\ \A i \in 1..Len(players) :
                 players'[i].score \in {players[i].score, players[i].score + WinBonus}
      ]_vars

-----------------------------------------------------------------------------
(* C9 *)

\* C9: every play_card issued carries a cardIndex within [0, hand.length) of the
\* turn holder's current hand (stated for the first round of a game: the hand has
\* changed by private_update only).
C9_PlayIndexInHand ==
    [][(PlayIssued /\ currentRound = 1)
        => LastIssued.cardIndex \in 0..(Len(CurrentHand) - 1)]_vars

-----------------------------------------------------------------------------
(* C10 *)

\* C10: draw_card takes effect (a draw_card is issued, hasDrawn is set) only when
\* the requesting player, the local user, is players[currentPlayer].
C10_DrawOnlyByTurnHolder ==
    [][(DrawIssued \/ (~hasDrawn /\ hasDrawn'))
        => (HasTurnHolder /\ players[currentPlayer + 1].id = userId)]_vars

-----------------------------------------------------------------------------
(* C11 *)

CallIssued == Issued /\ LastIssued = CallMsg

\* C11: a call issued by the turn holder ends the round: the step applies the
\* progression to the next round (round counter incremented) or to the game's end.
C11_CallEndsRound ==
    [][(CallIssued /\ ValidRoster /\ HasTurnHolder) => (RoundStep \/ showWinner')]_vars

-----------------------------------------------------------------------------
(* C12 *)

\* C12: within one game every score is a non-negative integer and no step lowers
\* one: the roster keeps its size and every player's score stays or grows.
C12_ScoresNeverDecrease ==
    [][(gameStarted /\ gameStarted')
        => /\ Len(players') = Len(players)
           /\ \A i \in 1..Len(players) :
                 /\ players[i].score >= 0
                 /\ players'[i].score >= players[i].score]_vars

\* a player holds a bonus in a later round and has had the hand replaced by a
\* private_update: the new round and the message kept the score
C12_Witness ==
    /\ gameStarted /\ ValidRoster /\ currentRound > 1
    /\ players[1].score = WinBonus
    /\ players[1].hand \in MsgHands

-----------------------------------------------------------------------------
(* C13 *)

\* C13: a game is started only with a roster of 2 to 8 players and at least 1 round.
C13_StartValidated ==
    [][(~gameStarted /\ gameStarted') => (ValidRoster /\ numRounds >= 1)]_vars

-----------------------------------------------------------------------------
(* C14 *)

\* the turn holder's hand holds a card of the table card's value
MatchOnTable ==
    /\ IsCard(tableCard)
    /\ \E n \in 1..Len(CurrentHand) : CurrentHand[n].value = tableCard.value

\* C14: no draw_card is issued while the turn holder's hand holds a card whose value
\* equals the table card's value.
C14_NoDrawOnMatch == [][DrawIssued => ~MatchOnTable]_vars

\* the hand matches the table card and nothing else keeps the player from drawing
C14_Witness ==
    gameStarted /\ ValidRoster /\ MatchOnTable /\ ~hasDrawn /\ socket = "OPEN" /\ outbox = <<>>

-----------------------------------------------------------------------------
(* C15 *)

PublicUpdates == {data \in Messages : data.type = "public_update"}
PrivateUpdates == {data \in Messages : data.type = "private_update"}

\* C15: handling a public_update changes at most the table card: the players (hands
\* and scores), the round, hasDrawn and every other part of the state stay as they were.
C15_PublicUpdateFrame ==
    [][(\E data \in PublicUpdates : onmessage(data))
        => UNCHANGED <<gameStarted, numPlayers, numRounds, currentRound, players,
                       currentPlayer, deck, selectedCard, showWinner, gameWinners,
                       hasDrawn, socket, mounted, outbox>>]_vars

\* a public_update has set the table card (the card is still in a hand or in the
\* deck, so no deal put it on the table) and hasDrawn stayed true
C15_Witness ==
    /\ gameStarted /\ ValidRoster /\ hasDrawn
    /\ tableCard \in MsgTableCards
    /\ \/ \E n \in 1..Len(deck) : deck[n] = tableCard
       \/ \E i \in 1..Len(players) : \E n \in 1..Len(players[i].hand) :
             players[i].hand[n] = tableCard

-----------------------------------------------------------------------------
(* C16 *)

\* the places of a card in the deck and in the hands, and whether it lies on the table
PlacesInDeck(c) == {n \in 1..Len(deck) : deck[n] = c}
PlacesInHands(c) ==
    {p \in UNION {{<<i, n>> : n \in 1..Len(players[i].hand)} : i \in 1..Len(players)} :
        players[p[1]].hand[p[2]] = c}
Copies(c) ==
    Cardinality(PlacesInDeck(c)) + Cardinality(PlacesInHands(c))
        + (IF tableCard = c THEN 1 ELSE 0)
EachCardOnce == \A n \in 1..DeckSize : Copies(OrderedDeck[n]) = 1

\* C16: however the user's actions and the message callbacks interleave, in a running
\* game with a valid roster no card is duplicated or lost: each of the 52 cards is in
\* exactly one place among the deck, the hands and the table.
C16_NoCardDuplicatedOrLost == (gameStarted /\ ~showWinner /\ ValidRoster) => EachCardOnce

-----------------------------------------------------------------------------
(* C17 *)

DealStep == (~gameStarted /\ gameStarted') \/ (RoundStep /\ ~GreaterEq(currentRound, numRounds))

\* the set of the 52 (suit, value) pairs
AllCards == {OrderedDeck[n] : n \in 1..DeckSize}

-----------------------------------------------------------------------------
(* C18 *)

\* C18: in a started game with at least 1 round configured, the game-over state
\* included, 1 <= currentRound <= numRounds.
C18_RoundWithinBounds ==
    (gameStarted /\ numRounds >= 1) => (1 <= currentRound /\ currentRound <= numRounds)

-----------------------------------------------------------------------------
(* C19 *)

\* C19: handling a private_update gives the message's hand to exactly the players
\* whose id is the local user id and leaves every other hand, every id, name and
\* score, and every other part of the state unchanged; with no such player the
\* whole state is unchanged.
C19_PrivateUpdateFrame ==
    [][\A data \in PrivateUpdates : onmessage(data)
        => /\ Len(players') = Len(players)
           /\ \A i \in 1..Len(players) :
                 /\ players'[i].id = players[i].id
                 /\ players'[i].name = players[i].name
                 /\ players'[i].score = players[i].score
                 /\ players'[i].hand =
                        IF players[i].id = userId THEN data.hand ELSE players[i].hand
           /\ ((\A i \in 1..Len(players) : players[i].id # userId) => UNCHANGED vars)
           /\ UNCHANGED <<gameStarted, numPlayers, numRounds, currentRound,
                          currentPlayer, deck, tableCard, selectedCard, showWinner,
                          gameWinners, hasDrawn, socket, mounted, outbox>>]_vars

\* the local player's hand came from a private_update, the next player still holds
\* the five dealt cards
C19_Witness ==
    /\ gameStarted /\ ValidRoster
    /\ players[1].id = userId /\ players[1].hand \in MsgHands
    /\ Len(players[2].hand) = HandSize /\ players[2].hand \notin MsgHands

-----------------------------------------------------------------------------
(* C20 *)

\* C20: a message is handed to the socket only while it is OPEN; hasDrawn becomes
\* true only in a step that issues draw_card; a Draw Card click while the socket is
\* not open changes nothing; and a socket that is closing or closed never opens
\* again, so nothing is sent after the close.
C20_SendOnlyWhenOpen ==
    [][/\ Issued => (mounted /\ socket = "OPEN")
       /\ (~hasDrawn /\ hasDrawn') => DrawIssued
       /\ (drawCard /\ socket # "OPEN") => UNCHANGED vars
       /\ socket \in {"CLOSING", "CLOSED"} => socket' \in {"CLOSING", "CLOSED"}
      ]_vars

\* the Draw Card button is enabled while the connection is closed
C20_Witness ==
    /\ mounted /\ gameStarted /\ ValidRoster /\ HasTurnHolder
    /\ socket = "CLOSED" /\ ~DrawDisabled /\ outbox = <<>>

====
